---- MODULE Spec2Model ----
(***************************************************************************)
(* Plasma Engine Gateway (src/src/gateway.ts): service registry parsing,   *)
(* health monitor, authenticator and forwarding interceptor; the context   *)
(* function of the minimal JavaScript gateway; loadConfig of settings.ts.  *)
(*                                                                         *)
(* A string is a sequence of characters; a character is a TLA+ string of   *)
(* one letter, or an opaque token standing for a longer run of ordinary    *)
(* letters.  Only "," "=" and " " are treated specially by the code.       *)
(***************************************************************************)
EXTENDS Naturals, Sequences, FiniteSets, TLC

VARIABLES
  servicesEnv,    \* process.env.SERVICES
  parsePc,        \* "env" before config is built, "parsed" after
  services,       \* config.services
  serviceHealth,  \* metrics.serviceHealth: name -> BOOLEAN, partial
  lastUpdate,     \* metrics.lastUpdate: the poll round that wrote it last (0: construction)
  requests,       \* metrics.requests
  errors,         \* metrics.errors
  healthStarted,  \* startHealthChecks has armed its interval timer
  sinceRound,     \* ticks since the timer was armed or fired last
  roundNo,        \* number of poll rounds started
  checks,         \* checkServiceHealth calls awaiting fetch: [svc, round, age]
  lastOutcome,    \* observer: name -> what the fetch of its latest completed check gave
  writtenBy,      \* observer: name -> the poll round whose check wrote its flag last
  lastCheck,      \* observer: the latest completed checkServiceHealth call, or NoCheck
  response,       \* the latest HTTP response sent, or NoResponse
  redisClient,    \* TRUE when the module-level redisClient has been assigned
  redisEntry,     \* what the store holds under blacklist:<token>: JsNull, "" or "1"
  redisFault,     \* "none", or how the store misbehaves: "error", "hang"
  authHeader,     \* req.headers.authorization of the call of authenticateRequest
  authPc,         \* "start", "lookup" (awaiting redisClient.get), "done", "threw"
  authDecoded,    \* the local decoded, held across the await
  authResult,     \* the AuthContext the call resolved to, or NoResult
  redisGets,      \* number of redisClient.get calls issued
  inbound,           \* inbound /graphql requests: r -> [pc, corr, auth, correlationId, decoded, ctx, issued]
  calls,          \* downstream calls in issue order, [headers, state]: of the request, of the gateway itself
  nodeEnv,        \* minimal gateway: process.env.NODE_ENV
  miniHeader,     \* minimal gateway: req.headers.authorization of the /graphql request
  miniPc,         \* minimal gateway: "idle", "start", "done"
  miniResult,     \* minimal gateway: what the context function gave, or NoResult
  settingsEnv,    \* settings.ts: process.env as loadConfig reads it
  settingsPc,     \* settings.ts: "idle", "env", "loaded", "built", "threw"
  settingsConfig, \* settings.ts: what loadConfig returned, or NoConfig
  settingsWarned, \* settings.ts: console.warn was called by loadConfig
  serviceList,    \* what buildServiceList returned, or NoList
  proc,           \* the gateway process: "starting", "running", "stopping", "exit0", "exit1"
  arrivals        \* observer: [corr, now, correlationId] of the requests the middleware of SpecCorr tagged

parseVars == <<servicesEnv, parsePc, services>>

metricVars == <<serviceHealth, lastUpdate, requests, errors>>

monitorVars == <<healthStarted, sinceRound, roundNo, checks, lastOutcome, writtenBy, lastCheck>>

miniVars == <<nodeEnv, miniHeader, miniPc, miniResult>>

settingsVars == <<settingsEnv, settingsPc, settingsConfig, settingsWarned, serviceList>>

redisVars == <<redisClient, redisEntry, redisFault>>

authVars == <<authHeader, authPc, authDecoded, authResult, redisGets>>

fwdVars == <<inbound, calls, arrivals>>

vars == <<parseVars, metricVars, monitorVars, response, proc, miniVars, settingsVars, redisVars, authVars, fwdVars>>

(***************************************************************************)
(* Bounds                                                                  *)
(***************************************************************************)
MaxLen == 5

\* poll rounds started, HTTP requests served
MaxRounds == 2

MaxRequests == 2

\* downstream calls of one /graphql request, calls of the gateway itself
\* (schema introspection, subgraph health check)
MaxCalls == 2

MaxGatewayCalls == 1

\* requests passing the request logging middleware
MaxArrivals == 3

Alphabet == {"a", "A", "=", ",", " "}

\* every string over Alphabet of length at most MaxLen
Strings == UNION {[1..k -> Alphabet] : k \in 0..MaxLen}

\* longer inputs, among them the ones of the test-suite and of the spec
SampleInputs ==
  { <<"CONTENT", "=", "http://content:4001", ",", "BRAND", "=", "http://brand:4002">>,
    <<"INVALID", ",", "ALSO_INVALID", "=">>,
    <<"A", "=", "http://a", ",", "BAD", ",", "B", "=", "http://b">>,
    <<"a", "=", "http://a", ",", "A", "=", "http://b">>,
    <<"a", "=", "http://a", "?", "k", "=", "v">> }

(***************************************************************************)
(* JavaScript string primitives                                            *)
(***************************************************************************)
IsSpace(c) == c = " "

\* String.prototype.toUpperCase, per character
UpperChar(c) ==
  CASE c = "a" -> "A"
    [] c = "k" -> "K"
    [] c = "v" -> "V"
    [] c = "http://a" -> "HTTP://A"
    [] c = "http://b" -> "HTTP://B"
    [] c = "http://content:4001" -> "HTTP://CONTENT:4001"
    [] c = "http://brand:4002" -> "HTTP://BRAND:4002"
    [] OTHER -> c

ToUpperCase(s) == [i \in 1..Len(s) |-> UpperChar(s[i])]

RECURSIVE TrimStart(_)
TrimStart(s) ==
  IF s # <<>> /\ IsSpace(Head(s)) THEN TrimStart(Tail(s)) ELSE s

RECURSIVE TrimEnd(_)
TrimEnd(s) ==
  IF s # <<>> /\ IsSpace(s[Len(s)]) THEN TrimEnd(SubSeq(s, 1, Len(s) - 1)) ELSE s

\* String.prototype.trim
Trim(s) == TrimEnd(TrimStart(s))

\* index of the first occurrence of sep in s, 0 when there is none
IndexOf(s, sep) ==
  IF \E i \in 1..Len(s) : s[i] = sep
  THEN CHOOSE i \in 1..Len(s) : s[i] = sep /\ \A j \in 1..(i - 1) : s[j] # sep
  ELSE 0

\* String.prototype.split(sep) for a one-character separator:
\* "a,,b" -> ["a","","b"], "" -> [""]
RECURSIVE Split(_, _)
Split(s, sep) ==
  LET i == IndexOf(s, sep) IN
  IF i = 0 THEN <<s>>
  ELSE <<SubSeq(s, 1, i - 1)>> \o Split(SubSeq(s, i + 1, Len(s)), sep)

\* Array.prototype.filter(Boolean) on strings: the empty string is falsy
RECURSIVE FilterNonEmpty(_)
FilterNonEmpty(xs) ==
  IF xs = <<>> THEN <<>>
  ELSE IF Head(xs) = <<>> THEN FilterNonEmpty(Tail(xs))
  ELSE <<Head(xs)>> \o FilterNonEmpty(Tail(xs))

MapTrim(xs) == [i \in 1..Len(xs) |-> Trim(xs[i])]

\* a health suffix other than the code's
HealthSuffixStatus == <<"/status">>

HealthSuffix == <<"/health">>

(***************************************************************************)
(* parseServiceList                                                        *)
(***************************************************************************)
\* the .map callback without its test of url
ParsePairKeepsEmptyUrl(pair) ==
  LET parts == Split(pair, "=")
      url == IF Len(parts) >= 2 THEN parts[2] ELSE <<>>
  IN IF parts[1] = <<>> THEN <<>>
     ELSE <<[name |-> ToUpperCase(parts[1]), url |-> Trim(url),
             healthCheck |-> Trim(url) \o HealthSuffix]>>

\* the body of .map(pair => ...): <<descriptor>> for a kept pair, <<>> for null
ParsePair(pair) ==
  LET parts == Split(pair, "=")
      name  == parts[1]
      \* destructuring [name, url]: url is undefined when there is one part
      hasUrl == Len(parts) >= 2 /\ parts[2] # <<>>
  IN IF name = <<>> \/ ~hasUrl THEN <<>>
     ELSE <<[name |-> ToUpperCase(name),
             url |-> Trim(parts[2]),
             healthCheck |-> Trim(parts[2]) \o HealthSuffix]>>

RECURSIVE FlatMapPairs(_)
FlatMapPairs(pairs) ==
  IF pairs = <<>> THEN <<>>
  ELSE ParsePair(Head(pairs)) \o FlatMapPairs(Tail(pairs))

\* the comma-separated entries, trimmed, empty ones removed
Entries(env) == FilterNonEmpty(MapTrim(Split(env, ",")))

\* parseServiceList that falls back to a default backend on empty input
parseServiceListDefaultBackend(env) ==
  IF env = <<>>
  THEN <<[name |-> <<"RESEARCH">>, url |-> <<"http://localhost:8000">>,
          healthCheck |-> <<"http://localhost:8000">> \o HealthSuffix]>>
  ELSE FlatMapPairs(Entries(env))

parseServiceList(env) ==
  IF env = <<>> THEN <<>>
  ELSE FlatMapPairs(Entries(env))

(***************************************************************************)
(* Metrics and the health map                                              *)
(***************************************************************************)
EmptyMap == [x \in {} |-> TRUE]

\* obj[key] = value on a plain object
Put(f, k, v) == [x \in DOMAIN f \cup {k} |-> IF x = k THEN v ELSE f[x]]

\* Object.values(obj)
Values(f) == {f[x] : x \in DOMAIN f}

ServiceNames == {services[i].name : i \in 1..Len(services)}

(***************************************************************************)
(* checkServiceHealth                                                      *)
(***************************************************************************)
Statuses == {200, 204, 304, 503}

\* what awaiting fetch() can give: a response, a rejection (network error),
\* or the rejection caused by controller.abort()
Responses == {[kind |-> "response", status |-> s] : s \in Statuses}

NetworkError == [kind |-> "reject", status |-> 0]

Aborted == [kind |-> "abort", status |-> 0]

\* Response.ok
ResponseOk(resp) == resp.status >= 200 /\ resp.status <= 299

\* checkServiceHealth whose catch block logs and returns without recording
checkServiceHealthCatchSkipsWrite(health, service, outcome) ==
  IF outcome.kind = "response"
  THEN [health |-> Put(health, service.name, outcome.status >= 200 /\ outcome.status <= 299),
        returned |-> outcome.status >= 200 /\ outcome.status <= 299, threw |-> FALSE]
  ELSE [health |-> health, returned |-> FALSE, threw |-> FALSE]

\* checkServiceHealth whose catch block marks every recorded service unhealthy
checkServiceHealthFailsAll(health, service, outcome) ==
  IF outcome.kind = "response"
  THEN [health |-> Put(health, service.name, outcome.status >= 200 /\ outcome.status <= 299),
        returned |-> outcome.status >= 200 /\ outcome.status <= 299, threw |-> FALSE]
  ELSE [health |-> [n \in DOMAIN health \cup {service.name} |-> FALSE],
        returned |-> FALSE, threw |-> FALSE]

\* checkServiceHealth whose catch block removes the flag of the service
checkServiceHealthForgetsOnError(health, service, outcome) ==
  IF outcome.kind = "response"
  THEN [health |-> Put(health, service.name, outcome.status >= 200 /\ outcome.status <= 299),
        returned |-> outcome.status >= 200 /\ outcome.status <= 299, threw |-> FALSE]
  ELSE [health |-> [n \in DOMAIN health \ {service.name} |-> health[n]],
        returned |-> FALSE, threw |-> FALSE]

\* the call from the point where fetch settles: the health map it leaves,
\* the value it resolves to, and whether it rejects instead
checkServiceHealth(health, service, outcome) ==
  IF outcome.kind = "response"
  THEN LET isHealthy == ResponseOk(outcome)
       IN [health |-> Put(health, service.name, isHealthy),
           returned |-> isHealthy, threw |-> FALSE]
  ELSE \* catch (error)
       [health |-> Put(health, service.name, FALSE),
        returned |-> FALSE, threw |-> FALSE]

(***************************************************************************)
(* Observability endpoints                                                 *)
(***************************************************************************)
\* /health that reports healthy as soon as one service is healthy
HealthHandlerAnyHealthy(health, count, errs) ==
  LET status == IF DOMAIN health = {} \/ \E n \in DOMAIN health : health[n]
                THEN "healthy" ELSE "degraded"
  IN [path |-> "/health",
      code |-> IF status = "healthy" THEN 200 ELSE 503,
      status |-> status,
      services |-> health,
      requests |-> count,
      errors |-> errs]

\* /health that is degraded as long as no flag has been recorded
HealthHandlerEmptyDegraded(health, count, errs) ==
  LET status == IF DOMAIN health # {} /\ \A n \in DOMAIN health : health[n]
                THEN "healthy" ELSE "degraded"
  IN [path |-> "/health",
      code |-> IF status = "healthy" THEN 200 ELSE 503,
      status |-> status,
      services |-> health,
      requests |-> count,
      errors |-> errs]

\* app.get('/health')
HealthHandler(health, count, errs) ==
  LET healthyServices == Cardinality({n \in DOMAIN health : health[n]})
      totalServices   == Cardinality(DOMAIN health)
      status == IF healthyServices = totalServices THEN "healthy" ELSE "degraded"
  IN [path |-> "/health",
      code |-> IF status = "healthy" THEN 200 ELSE 503,
      status |-> status,
      services |-> health,
      requests |-> count,
      errors |-> errs]

\* /ready that treats an empty health map as not ready
ReadyHandlerEmptyNotReady(health) ==
  IF (\A n \in DOMAIN health : health[n]) /\ Cardinality(DOMAIN health) # 0
  THEN [path |-> "/ready", code |-> 200, status |-> "ready"]
  ELSE [path |-> "/ready", code |-> 503, status |-> "not ready", services |-> health]

\* /ready that is ready as soon as one flag is true
ReadyHandlerSomeHealthy(health) ==
  IF (\E n \in DOMAIN health : health[n]) \/ Cardinality(DOMAIN health) = 0
  THEN [path |-> "/ready", code |-> 200, status |-> "ready"]
  ELSE [path |-> "/ready", code |-> 503, status |-> "not ready", services |-> health]

\* app.get('/ready')
ReadyHandler(health) ==
  LET allServicesHealthy == \A n \in DOMAIN health : health[n]
  IN IF allServicesHealthy \/ Cardinality(DOMAIN health) = 0
     THEN [path |-> "/ready", code |-> 200, status |-> "ready"]
     ELSE [path |-> "/ready", code |-> 503, status |-> "not ready",
           services |-> health]

\* app.get('/metrics')
MetricsHandler(health, count, errs, upd) ==
  [path |-> "/metrics", code |-> 200, requests |-> count, errors |-> errs,
   serviceHealth |-> health, lastUpdate |-> upd]

(***************************************************************************)
(* authenticateRequest                                                     *)
(***************************************************************************)
JsNull == "<null>"

JsUndefined == "<undefined>"

NoResult == [kind |-> "none"]

\* payloads of the tokens presented: the test's, one without roles, one without sub
Payloads ==
  { [sub |-> "user123", email |-> "test@example.com", roles |-> <<"user", "admin">>],
    [sub |-> "user123", email |-> "test@example.com"],
    [email |-> "test@example.com", roles |-> <<>>] }

Algorithms == {"HS256", "HS512", "RS256", "none"}

\* a token: a compact JWT with its header algorithm, whether its signature is
\* the one config.jwtSecret gives, whether its exp has passed; or no JWT at all
Garbage ==
  [jwt |-> FALSE, alg |-> "none", sigOk |-> FALSE, expired |-> FALSE,
   payload |-> [email |-> "test@example.com", roles |-> <<>>]]

Tokens ==
  [jwt : {TRUE}, alg : Algorithms, sigOk : BOOLEAN, expired : BOOLEAN, payload : Payloads]
    \cup {Garbage}

\* an Authorization header: its first seven characters and the rest
NoHeader == [scheme |-> "absent", token |-> Garbage]

AuthHeaders ==
  {NoHeader, [scheme |-> "Invalid", token |-> Garbage]}
    \cup [scheme : {"bearer "}, token : {t \in Tokens : t.alg = "HS256" /\ t.sigOk /\ ~t.expired}]
    \cup [scheme : {"Bearer "}, token : Tokens]

\* jwt.verify(token, secret) with a string secret and no options: the HMAC
\* algorithms are accepted; returns the payload or throws
HmacAlgorithms == {"HS256", "HS384", "HS512"}

JwtVerify(token) ==
  IF token.jwt /\ token.alg \in HmacAlgorithms /\ token.sigOk /\ ~token.expired
  THEN [ok |-> TRUE, decoded |-> token.payload]
  ELSE [ok |-> FALSE]

\* obj.field, undefined when the property is missing
SubOf(decoded) == IF "sub" \in DOMAIN decoded THEN decoded.sub ELSE JsUndefined

EmailOf(decoded) == IF "email" \in DOMAIN decoded THEN decoded.email ELSE JsUndefined

\* decoded.roles || []
RolesOrEmpty(decoded) == IF "roles" \in DOMAIN decoded THEN decoded.roles ELSE <<>>

Anonymous == [isAuthenticated |-> FALSE]

Authenticated(decoded) ==
  [user |-> [id |-> SubOf(decoded), roles |-> RolesOrEmpty(decoded),
             email |-> EmailOf(decoded)],
   isAuthenticated |-> TRUE]

\* truthiness of what redisClient.get resolved to: null and "" are falsy
Truthy(value) == value # JsNull /\ value # ""

\* authenticateRequest without its try/catch around jwt.verify
AuthenticateBeginNoCatch(header, client) ==
  IF header.scheme # "Bearer " THEN [kind |-> "return", value |-> Anonymous]
  ELSE LET v == JwtVerify(header.token) IN
       IF ~v.ok THEN [kind |-> "throw"]
       ELSE IF client THEN [kind |-> "await", decoded |-> v.decoded]
       ELSE [kind |-> "return", value |-> Authenticated(v.decoded)]

\* authenticateRequest up to its first await: it returns, or awaits the store
AuthenticateBegin(header, client) ==
  IF header.scheme = "absent" \/ header.scheme # "Bearer "
  THEN [kind |-> "return", value |-> Anonymous]
  ELSE LET v == JwtVerify(header.token) IN
       IF ~v.ok THEN \* catch (error)
            [kind |-> "return", value |-> Anonymous]
       ELSE IF client THEN [kind |-> "await", decoded |-> v.decoded]
       ELSE [kind |-> "return", value |-> Authenticated(v.decoded)]

\* authenticateRequest from the point where redisClient.get settles
AuthenticateAfterLookup(decoded, reply) ==
  IF reply.kind = "error" THEN \* catch (error)
       [kind |-> "return", value |-> Anonymous]
  ELSE IF Truthy(reply.value) THEN [kind |-> "return", value |-> Anonymous]
  ELSE [kind |-> "return", value |-> Authenticated(decoded)]

\* what awaiting redisClient.get gives when the store answers at all
RedisReply(entry, fault) ==
  IF fault = "error" THEN [kind |-> "error", value |-> JsNull]
  ELSE [kind |-> "value", value |-> entry]

NoRedis ==
  /\ redisClient = FALSE
  /\ redisEntry = JsNull
  /\ redisFault = "none"

\* the local decoded before jwt.verify has assigned it
NoDecoded == [assigned |-> FALSE]

NoAuthCall ==
  /\ authHeader = NoHeader
  /\ authPc = "idle"
  /\ authDecoded = NoDecoded
  /\ authResult = NoResult
  /\ redisGets = 0

(***************************************************************************)
(* Request context and AuthenticatedDataSource                             *)
(***************************************************************************)
\* an inbound x-correlation-id header: absent, empty, or the test's value
Absent == "<absent>"

CorrelationHeaders == {Absent, "", "test-123"}

\* what generateCorrelationId can return: `gw-${Date.now()}-${random}`
GeneratedIds == {"gw-1700000000000-k3j9x2m1q", "gw-1700000000000-p0o9i8u7y"}

\* Date.now() readings, and what Math.random().toString(36).substr(2, 9) gives
Millis == {1000, 1001}

RandomSuffixes == {"k3j9x2m1q", "p0o9i8u7y"}

\* `gw-${Date.now()}-${Math.random().toString(36).substr(2, 9)}`
generateCorrelationId(now, rnd) == "gw-" \o ToString(now) \o "-" \o rnd

\* Authorization headers of the inbound requests
FwdAuthHeaders ==
  {NoHeader}
    \cup [scheme : {"Bearer "},
          token : {t \in Tokens : t.alg = "HS256" /\ t.sigOk /\ (t.expired => "sub" \in DOMAIN t.payload
                                                                              /\ "roles" \in DOMAIN t.payload)}]

NoCtx == [kind |-> "none"]

NewRequest ==
  [pc |-> "new", corr |-> Absent, auth |-> NoHeader, correlationId |-> JsUndefined,
   decoded |-> [email |-> "test@example.com", roles |-> <<>>], ctx |-> NoCtx,
   closed |-> FALSE]

Owners == {"request", "gateway"}

NoTraffic ==
  /\ inbound = NewRequest
  /\ calls = [o \in Owners |-> <<>>]
  /\ arrivals = <<>>

\* req.headers['x-correlation-id'] || generateCorrelationId()
CorrelationOf(header, fresh) ==
  IF header # Absent /\ header # "" THEN header ELSE fresh

\* { ...auth, correlationId: req.correlationId || generateCorrelationId() }
BuildContext(auth, correlationId, fresh) ==
  auth @@ ("correlationId" :>
             IF correlationId # JsUndefined /\ correlationId # "" THEN correlationId ELSE fresh)

\* roles.join(',')
RECURSIVE JoinComma(_)
JoinComma(roles) ==
  IF roles = <<>> THEN <<>>
  ELSE IF Len(roles) = 1 THEN <<roles[1]>>
  ELSE <<roles[1], ",">> \o JoinComma(Tail(roles))

\* willSendRequest that sends identity headers for anonymous contexts too
WillSendRequestPlaceholderIdentity(context, fresh) ==
  ("x-user-id" :> IF "user" \in DOMAIN context THEN context.user.id ELSE "anonymous")
    @@ ("x-user-roles" :>
          IF "user" \in DOMAIN context THEN JoinComma(context.user.roles) ELSE <<>>)
    @@ ("x-correlation-id" :>
          IF "correlationId" \in DOMAIN context /\ context.correlationId # ""
          THEN context.correlationId ELSE fresh)

\* willSendRequest that tags each call with an identifier of its own
WillSendRequestFreshId(context, fresh) ==
  (IF "user" \in DOMAIN context
   THEN ("x-user-id" :> context.user.id) @@ ("x-user-roles" :> JoinComma(context.user.roles))
   ELSE EmptyMap)
    @@ ("x-correlation-id" :> fresh)

\* AuthenticatedDataSource.willSendRequest: the headers it sets on the call
WillSendRequest(context, fresh) ==
  LET identity ==
        IF "user" \in DOMAIN context
        THEN ("x-user-id" :> context.user.id)
               @@ ("x-user-roles" :> JoinComma(context.user.roles))
        ELSE EmptyMap
      correlationId ==
        IF "correlationId" \in DOMAIN context /\ context.correlationId # ""
        THEN context.correlationId ELSE fresh
  IN identity @@ ("x-correlation-id" :> correlationId)

\* AuthenticatedDataSource.didReceiveResponse: metrics.errors after it
DidReceiveResponse(errs, resp) ==
  IF resp.status >= 400 THEN errs + 1 ELSE errs

\* didEncounterError that writes back a count read before another increment
DidEncounterErrorLostUpdate(errs) == IF errs > 0 THEN errs ELSE errs + 1

\* AuthenticatedDataSource.didEncounterError: metrics.errors after it
DidEncounterError(errs) == errs + 1

\* the server plugin's didEncounterErrors: metrics.errors after it
PluginDidEncounterErrors(errs) == errs + 1

\* RemoteGraphQLDataSource.process once the fetch settled: a response that is
\* not ok and a rejected fetch go to didEncounterError and are re-thrown, an ok
\* response goes to didReceiveResponse
ProcessSettled(errs, outcome) ==
  IF outcome.kind = "response" /\ ResponseOk(outcome)
  THEN [errors |-> DidReceiveResponse(errs, outcome), state |-> "ok"]
  ELSE [errors |-> DidEncounterError(errs), state |-> "failed"]

(***************************************************************************)
(* The minimal JavaScript gateway with JWT support (src/unnamed/part_001): *)
(* the context function of its /graphql route                              *)
(***************************************************************************)
\* JavaScript null as the value of a property that otherwise holds an object
NullValue == [null |-> TRUE]

NodeEnvs == {"production", "development", "test", JsUndefined}

ExpectedIssuer == "plasma-engine-gateway"

ExpectedAudience == "plasma-engine"

\* the text after "Bearer ": nothing at all, no JWT, or a compact JWT with its
\* header algorithm, signature, expiry, iss and aud claims
EmptyToken ==
  [empty |-> TRUE, jwt |-> FALSE, alg |-> "none", sigOk |-> FALSE, expired |-> FALSE,
   iss |-> JsUndefined, aud |-> JsUndefined]

GarbageToken == [EmptyToken EXCEPT !.empty = FALSE]

MiniTokens ==
  [empty : {FALSE}, jwt : {TRUE}, alg : {"HS256", "HS512", "none"}, sigOk : BOOLEAN,
   expired : BOOLEAN, iss : {ExpectedIssuer, "other", JsUndefined},
   aud : {ExpectedAudience, "other"}]
    \cup {EmptyToken, GarbageToken}

MiniHeaders ==
  {[scheme |-> "absent", token |-> EmptyToken], [scheme |-> "Basic ", token |-> GarbageToken],
   [scheme |-> "bearer ", token |-> GarbageToken]}
    \cup [scheme : {"Bearer "}, token : MiniTokens]

\* the claims jwt.verify returns for token
ClaimsOf(token) == [null |-> FALSE, sub |-> "user123", iss |-> token.iss, aud |-> token.aud]

\* verifyJWT that does not ask for the audience
verifyJWTAnyAudience(token) ==
  IF /\ token.jwt /\ token.alg = "HS256" /\ token.sigOk /\ ~token.expired
     /\ token.iss = ExpectedIssuer
  THEN [threw |-> FALSE, claims |-> ClaimsOf(token)]
  ELSE [threw |-> TRUE, message |-> "Invalid or expired token"]

\* verifyJWT: jwt.verify with algorithms ['HS256'], issuer and audience; any
\* error is replaced by Error('Invalid or expired token')
verifyJWT(token) ==
  IF /\ token.jwt /\ token.alg = "HS256" /\ token.sigOk /\ ~token.expired
     /\ token.iss = ExpectedIssuer /\ token.aud = ExpectedAudience
  THEN [threw |-> FALSE, claims |-> ClaimsOf(token)]
  ELSE [threw |-> TRUE, message |-> "Invalid or expired token"]

\* extractTokenFromHeader: null, or authHeader.substring(7)
extractTokenFromHeader(header) ==
  IF header.scheme = "absent" \/ header.scheme # "Bearer "
  THEN [null |-> TRUE]
  ELSE [null |-> FALSE, token |-> header.token]

\* context: async ({ req }) => ...
GraphqlContext(header, env) ==
  LET token == extractTokenFromHeader(header) IN
  \* !token: null and the empty string are falsy
  IF token.null \/ token.token.empty
  THEN IF env # "production"
       THEN [kind |-> "return", user |-> NullValue]
       ELSE [kind |-> "throw", message |-> "Authentication required"]
  ELSE LET v == verifyJWT(token.token) IN
       IF v.threw
       THEN [kind |-> "throw", message |-> "Authentication failed: " \o v.message]
       ELSE [kind |-> "return", user |-> v.claims]

NoMiniCall ==
  /\ nodeEnv = JsUndefined
  /\ miniHeader = [scheme |-> "absent", token |-> EmptyToken]
  /\ miniPc = "idle"
  /\ miniResult = NoResult

(***************************************************************************)
(* loadConfig (src/src/settings.ts) and buildServiceList                   *)
(* (src/unnamed/part_004)                                                  *)
(***************************************************************************)
\* JavaScript values as JSON.parse gives them
JsArray(items) == [type |-> "array", items |-> items]

JsObject(props) == [type |-> "object", props |-> props]

JsNullValue == [type |-> "null"]

JsNumber == [type |-> "number"]

\* values of SERVICE_LIST_JSON: unset, empty, no JSON, and JSON texts
ServiceListJsonInputs ==
  { JsUndefined, "", "not json", "[{\"name\":\"content\",",
    "[{\"name\":\"content\",\"url\":\"http://content/graphql\"}]",
    "[]", "null", "42", "{\"name\":\"content\"}", "[null]",
    "[{\"name\":\"content\"}]" }

\* JSON.parse: the value, or a SyntaxError
JsonParse(text) ==
  CASE text = "[{\"name\":\"content\",\"url\":\"http://content/graphql\"}]" ->
         [ok |-> TRUE,
          value |-> JsArray(<<JsObject([name |-> "content", url |-> "http://content/graphql"])>>)]
    [] text = "[]" -> [ok |-> TRUE, value |-> JsArray(<<>>)]
    [] text = "null" -> [ok |-> TRUE, value |-> JsNullValue]
    [] text = "42" -> [ok |-> TRUE, value |-> JsNumber]
    [] text = "{\"name\":\"content\"}" ->
         [ok |-> TRUE, value |-> JsObject([name |-> "content"])]
    [] text = "[null]" -> [ok |-> TRUE, value |-> JsArray(<<JsNullValue>>)]
    [] text = "[{\"name\":\"content\"}]" ->
         [ok |-> TRUE, value |-> JsArray(<<JsObject([name |-> "content"])>>)]
    [] OTHER -> [ok |-> FALSE]

\* values of CORS_ORIGINS and of RESEARCH_GRAPHQL_URL; Unset is an unset variable
Unset == <<"<unset>">>

CorsInputs == {Unset} \cup UNION {[1..k -> {"a", ",", " "}] : k \in 0..3}

ResearchUrlInputs == {JsUndefined, "", "http://research/graphql"}

SettingsEnvs ==
  [CORS_ORIGINS : CorsInputs, RESEARCH_GRAPHQL_URL : ResearchUrlInputs,
   SERVICE_LIST_JSON : ServiceListJsonInputs]

\* the downstream list loadConfig starts from
DefaultDownstream(env) ==
  JsArray(<<JsObject([name |-> "research",
                      url |-> IF env.RESEARCH_GRAPHQL_URL = JsUndefined
                              THEN "http://localhost:7001/graphql"
                              ELSE env.RESEARCH_GRAPHQL_URL])>>)

\* loadConfig that lets the SyntaxError of JSON.parse escape
loadConfigNoCatch(env) ==
  LET rawOrigins == IF env.CORS_ORIGINS = Unset THEN <<"http://localhost:3000">>
                    ELSE env.CORS_ORIGINS
      corsOrigins == MapTrim(Split(rawOrigins, ","))
      given == env.SERVICE_LIST_JSON # JsUndefined /\ env.SERVICE_LIST_JSON # ""
      parsed == JsonParse(env.SERVICE_LIST_JSON)
  IN [threw |-> given /\ ~parsed.ok,
      warned |-> FALSE,
      config |-> [corsOrigins |-> corsOrigins,
                  downstreamServices |-> IF given /\ parsed.ok THEN parsed.value
                                         ELSE DefaultDownstream(env)]]

\* loadConfig
loadConfig(env) ==
  LET rawOrigins == IF env.CORS_ORIGINS = Unset THEN <<"http://localhost:3000">>
                    ELSE env.CORS_ORIGINS
      corsOrigins == MapTrim(Split(rawOrigins, ","))
      \* if (process.env.SERVICE_LIST_JSON): unset and "" are falsy
      given == env.SERVICE_LIST_JSON # JsUndefined /\ env.SERVICE_LIST_JSON # ""
      parsed == JsonParse(env.SERVICE_LIST_JSON)
  IN [threw |-> FALSE,
      warned |-> given /\ ~parsed.ok,
      config |-> [corsOrigins |-> corsOrigins,
                  downstreamServices |-> IF given /\ parsed.ok THEN parsed.value
                                         ELSE DefaultDownstream(env)]]

\* service.name, service.url: undefined for a missing property or a number
PropOf(item, key) ==
  IF item.type = "object" /\ key \in DOMAIN item.props THEN item.props[key] ELSE JsUndefined

\* buildServiceList: config.downstreamServices.map(...); a TypeError when the
\* value has no map method or an element is null
buildServiceList(config) ==
  LET list == config.downstreamServices IN
  IF list.type # "array" THEN [threw |-> TRUE, list |-> <<>>]
  ELSE IF \E i \in 1..Len(list.items) : list.items[i].type = "null"
       THEN [threw |-> TRUE, list |-> <<>>]
  ELSE [threw |-> FALSE,
        list |-> [i \in 1..Len(list.items) |->
                    [name |-> PropOf(list.items[i], "name"),
                     url |-> PropOf(list.items[i], "url")]]]

NoConfig == [corsOrigins |-> <<>>, downstreamServices |-> JsNullValue]

NoList == <<>>

NoSettings ==
  /\ settingsEnv = [CORS_ORIGINS |-> Unset, RESEARCH_GRAPHQL_URL |-> JsUndefined,
                    SERVICE_LIST_JSON |-> JsUndefined]
  /\ settingsPc = "idle"
  /\ settingsConfig = NoConfig
  /\ settingsWarned = FALSE
  /\ serviceList = NoList

(***************************************************************************)
(* Health monitor.  Time advances in ticks of config.healthCheck.timeout.  *)
(***************************************************************************)
HealthCheckTimeout == 5000

CheckInterval == 30000

IntervalTicks == CheckInterval \div HealthCheckTimeout

\* a timeout that is longer than the interval between two rounds
TimeoutTicksBeyondInterval == IntervalTicks + 1

TimeoutTicks == 1

NoCheck == [kind |-> "none"]

NoResponse == [path |-> "none"]

\* SERVICES values the running gateway is started with
ServicesInputs ==
  { <<>>,
    <<"CONTENT", "=", "http://content:4001", ",", "BRAND", "=", "http://brand:4002">>,
    <<"A", "=", "http://a", ",", "BAD", ",", "B", "=", "http://b">>,
    <<"a", "=", "http://a", ",", "A", "=", "http://b">> }

InitMonitor ==
  /\ healthStarted = FALSE
  /\ sinceRound = 0
  /\ roundNo = 0
  /\ checks = {}
  /\ lastOutcome = EmptyMap
  /\ writtenBy = EmptyMap
  /\ lastCheck = NoCheck

\* const metrics = { requests: 0, errors: 0, serviceHealth: {}, lastUpdate: new Date() }
InitMetrics ==
  /\ serviceHealth = EmptyMap
  /\ lastUpdate = 0
  /\ requests = 0
  /\ errors = 0

Init ==
  /\ servicesEnv \in ServicesInputs
  /\ parsePc = "parsed"
  /\ services = parseServiceList(servicesEnv)
  /\ InitMetrics
  /\ InitMonitor
  /\ NoMiniCall
  /\ NoSettings
  /\ proc = "running"
  /\ response = NoResponse
  /\ NoRedis
  /\ NoAuthCall
  /\ NoTraffic

\* startHealthChecks: setInterval(..., checkInterval)
StartHealthChecks ==
  /\ ~healthStarted
  /\ healthStarted' = TRUE
  /\ sinceRound' = 0
  /\ UNCHANGED <<parseVars, metricVars, roundNo, checks, lastOutcome, writtenBy, lastCheck, response,
                 proc, miniVars, settingsVars, redisVars, authVars, fwdVars>>

\* a check whose abort timer is never armed
TimedOutNever(c) == FALSE

\* setTimeout(() => controller.abort(), config.healthCheck.timeout) is due for
\* check c, whose fetch has not settled
TimedOut(c) == c.age >= TimeoutTicks

\* one timeout span passes; the abort timer of a check that has waited a whole
\* span, and an interval timer that is due, fire before more time passes
Tick ==
  /\ healthStarted
  /\ sinceRound < IntervalTicks
  /\ \A c \in checks : c.age < TimeoutTicks
  /\ sinceRound' = sinceRound + 1
  /\ checks' = {[c EXCEPT !.age = c.age + 1] : c \in checks}
  /\ UNCHANGED <<parseVars, metricVars, healthStarted, roundNo, lastOutcome, writtenBy, lastCheck,
                 response, proc, miniVars, settingsVars, redisVars, authVars, fwdVars>>

\* an interval callback that checks the first service of the registry only
PollRoundFirstOnly ==
  /\ healthStarted
  /\ sinceRound = IntervalTicks
  /\ roundNo < MaxRounds
  /\ roundNo' = roundNo + 1
  /\ sinceRound' = 0
  /\ checks' = checks \cup
       {[svc |-> i, round |-> roundNo + 1, age |-> 0] : i \in 1..Len(services) \cap {1}}
  /\ lastUpdate' = IF Len(services) = 0 THEN roundNo + 1 ELSE lastUpdate
  /\ UNCHANGED <<parseVars, serviceHealth, requests, errors, healthStarted,
                 lastOutcome, writtenBy, lastCheck, response, proc, miniVars, settingsVars, redisVars, authVars, fwdVars>>

\* the interval callback up to its await: config.services.map(checkServiceHealth),
\* each call running to its await fetch(...); Promise.all([]) resolves at once
PollRound ==
  /\ healthStarted
  /\ sinceRound = IntervalTicks
  /\ roundNo < MaxRounds
  /\ roundNo' = roundNo + 1
  /\ sinceRound' = 0
  /\ checks' = checks \cup
       {[svc |-> i, round |-> roundNo + 1, age |-> 0] : i \in 1..Len(services)}
  /\ lastUpdate' = IF Len(services) = 0 THEN roundNo + 1 ELSE lastUpdate
  /\ UNCHANGED <<parseVars, serviceHealth, requests, errors, healthStarted,
                 lastOutcome, writtenBy, lastCheck, response, proc, miniVars, settingsVars, redisVars, authVars, fwdVars>>

\* a settle that sends the request again when the check failed
SettleRetries(c, outcome) ==
  LET service == services[c.svc]
      run == checkServiceHealth(serviceHealth, service, outcome)
      again == IF run.returned THEN {} ELSE {[c EXCEPT !.age = 0]}
      roundOver == again = {} /\ \A d \in checks \ {c} : d.round # c.round
  IN /\ checks' = (checks \ {c}) \cup again
     /\ serviceHealth' = run.health
     /\ lastUpdate' = IF roundOver THEN c.round ELSE lastUpdate
     /\ lastOutcome' = Put(lastOutcome, service.name, outcome)
     /\ writtenBy' = Put(writtenBy, service.name, c.round)
     /\ lastCheck' = [kind |-> "check", name |-> service.name, outcome |-> outcome,
                      svc |-> c.svc, round |-> c.round, age |-> c.age,
                      returned |-> run.returned, threw |-> run.threw,
                      recorded |-> IF service.name \in DOMAIN run.health
                                   THEN IF run.health[service.name] THEN "true" ELSE "false"
                                   ELSE "absent"]
     /\ UNCHANGED <<parseVars, requests, errors, healthStarted, sinceRound, roundNo,
                    response, proc, miniVars, settingsVars, redisVars, authVars, fwdVars>>

\* a callback that stamps metrics.lastUpdate as soon as one check has settled
SettleStampsEarly(c, outcome) ==
  LET service == services[c.svc]
      run == checkServiceHealth(serviceHealth, service, outcome)
  IN /\ checks' = checks \ {c}
     /\ serviceHealth' = run.health
     /\ lastUpdate' = c.round
     /\ lastOutcome' = Put(lastOutcome, service.name, outcome)
     /\ writtenBy' = Put(writtenBy, service.name, c.round)
     /\ lastCheck' = [kind |-> "check", name |-> service.name, outcome |-> outcome,
                      svc |-> c.svc, round |-> c.round, age |-> c.age,
                      returned |-> run.returned, threw |-> run.threw,
                      recorded |-> IF service.name \in DOMAIN run.health
                                   THEN IF run.health[service.name] THEN "true" ELSE "false"
                                   ELSE "absent"]
     /\ UNCHANGED <<parseVars, requests, errors, healthStarted, sinceRound, roundNo,
                    response, proc, miniVars, settingsVars, redisVars, authVars, fwdVars>>

\* the fetch of check c settles and checkServiceHealth runs to its end; when it
\* was the last check of its round, the callback resumes after Promise.all
Settle(c, outcome) ==
  LET service == services[c.svc]
      run == checkServiceHealth(serviceHealth, service, outcome)
      roundOver == \A d \in checks \ {c} : d.round # c.round
  IN /\ checks' = checks \ {c}
     /\ serviceHealth' = run.health
     /\ lastUpdate' = IF roundOver THEN c.round ELSE lastUpdate
     /\ lastOutcome' = Put(lastOutcome, service.name, outcome)
     /\ writtenBy' = Put(writtenBy, service.name, c.round)
     /\ lastCheck' = [kind |-> "check", name |-> service.name, outcome |-> outcome,
                      svc |-> c.svc, round |-> c.round, age |-> c.age,
                      returned |-> run.returned, threw |-> run.threw,
                      recorded |-> IF service.name \in DOMAIN run.health
                                   THEN IF run.health[service.name] THEN "true" ELSE "false"
                                   ELSE "absent"]
     /\ UNCHANGED <<parseVars, requests, errors, healthStarted, sinceRound, roundNo,
                    response, proc, miniVars, settingsVars, redisVars, authVars, fwdVars>>

\* fetch resolves with a response before the abort timer fires
FetchResponds ==
  \E c \in checks : \E resp \in Responses :
    /\ ~TimedOut(c)
    /\ Settle(c, resp)

\* fetch rejects with a network error
FetchFails ==
  \E c \in checks :
    /\ ~TimedOut(c)
    /\ Settle(c, NetworkError)

\* setTimeout(() => controller.abort(), config.healthCheck.timeout) fires
FetchAborted ==
  \E c \in checks :
    /\ TimedOut(c)
    /\ Settle(c, Aborted)

\* GET /health that forgets the recorded flags after answering
GetHealthResetsMap ==
  /\ requests < MaxRequests
  /\ requests' = requests + 1
  /\ response' = HealthHandler(serviceHealth, requests + 1, errors)
  /\ serviceHealth' = EmptyMap
  /\ UNCHANGED <<parseVars, lastUpdate, errors, monitorVars, proc, miniVars, settingsVars, redisVars, authVars, fwdVars>>

\* the request logging middleware, then the handler of the route
GetHealth ==
  /\ requests < MaxRequests
  /\ requests' = requests + 1
  /\ response' = HealthHandler(serviceHealth, requests + 1, errors)
  /\ UNCHANGED <<parseVars, serviceHealth, lastUpdate, errors, monitorVars,
                 proc, miniVars, settingsVars, redisVars, authVars, fwdVars>>

GetReady ==
  /\ requests < MaxRequests
  /\ requests' = requests + 1
  /\ response' = ReadyHandler(serviceHealth)
  /\ UNCHANGED <<parseVars, serviceHealth, lastUpdate, errors, monitorVars,
                 proc, miniVars, settingsVars, redisVars, authVars, fwdVars>>

GetMetrics ==
  /\ requests < MaxRequests
  /\ requests' = requests + 1
  /\ response' = MetricsHandler(serviceHealth, requests + 1, errors, lastUpdate)
  /\ UNCHANGED <<parseVars, serviceHealth, lastUpdate, errors, monitorVars,
                 proc, miniVars, settingsVars, redisVars, authVars, fwdVars>>

Next ==
  \/ StartHealthChecks
  \/ Tick
  \/ PollRound
  \/ FetchResponds
  \/ FetchFails
  \/ FetchAborted
  \/ GetHealth
  \/ GetReady
  \/ GetMetrics

Spec == Init /\ [][Next]_vars

\* the health monitor under fairness: the timers fire when they are due, and a
\* fetch that has not settled when its abort timer fires is rejected
\* the health monitor alone, no request being served
NextMonitor ==
  \/ StartHealthChecks
  \/ Tick
  \/ PollRound
  \/ FetchResponds
  \/ FetchFails
  \/ FetchAborted

SpecLive ==
  /\ Init
  /\ [][NextMonitor]_vars
  /\ WF_vars(Tick)
  /\ WF_vars(PollRound)
  /\ WF_vars(FetchAborted)

(***************************************************************************)
(* Specification SpecAuth: one call of authenticateRequest                 *)
(***************************************************************************)
InitAuth ==
  /\ servicesEnv = <<>>
  /\ parsePc = "parsed"
  /\ services = <<>>
  /\ InitMetrics
  /\ InitMonitor
  /\ NoMiniCall
  /\ NoSettings
  /\ proc = "running"
  /\ response = NoResponse
  /\ redisClient \in BOOLEAN
  /\ redisEntry \in IF redisClient THEN {JsNull, "", "1"} ELSE {JsNull}
  /\ redisFault \in IF redisClient THEN {"none", "error", "hang"} ELSE {"none"}
  /\ authHeader \in AuthHeaders
  /\ authPc = "start"
  /\ authDecoded = NoDecoded
  /\ authResult = NoResult
  /\ redisGets = 0
  /\ NoTraffic

\* the call runs to its first await or to its end
AuthStart ==
  /\ authPc = "start"
  /\ LET step == AuthenticateBegin(authHeader, redisClient) IN
       /\ authPc' = CASE step.kind = "return" -> "done"
                      [] step.kind = "await" -> "lookup"
                      [] OTHER -> "threw"
       /\ authResult' = IF step.kind = "return" THEN step.value ELSE NoResult
       /\ authDecoded' = IF step.kind = "await" THEN step.decoded ELSE authDecoded
       /\ redisGets' = IF step.kind = "await" THEN redisGets + 1 ELSE redisGets
  /\ UNCHANGED <<parseVars, metricVars, monitorVars, response, proc, miniVars, settingsVars, redisVars, authHeader, fwdVars>>

\* redisClient.get settles and the call runs to its end
AuthLookupSettles ==
  /\ authPc = "lookup"
  /\ redisFault # "hang"
  /\ LET step == AuthenticateAfterLookup(authDecoded, RedisReply(redisEntry, redisFault)) IN
       /\ authPc' = IF step.kind = "return" THEN "done" ELSE "threw"
       /\ authResult' = IF step.kind = "return" THEN step.value ELSE NoResult
  /\ UNCHANGED <<parseVars, metricVars, monitorVars, response, proc, miniVars, settingsVars, redisVars,
                 authHeader, authDecoded, redisGets, fwdVars>>

NextAuth == AuthStart \/ AuthLookupSettles

SpecAuth == InitAuth /\ [][NextAuth]_vars

\* the event loop runs every continuation that is ready: the call starts, and
\* resumes once redisClient.get has settled
SpecAuthLive == SpecAuth /\ WF_vars(AuthStart) /\ WF_vars(AuthLookupSettles)

(***************************************************************************)
(* Specification SpecFwd: /graphql requests and their downstream calls     *)
(***************************************************************************)
InitFwd ==
  /\ servicesEnv = <<>>
  /\ parsePc = "parsed"
  /\ services = <<>>
  /\ InitMetrics
  /\ InitMonitor
  /\ NoMiniCall
  /\ NoSettings
  /\ proc = "running"
  /\ response = NoResponse
  /\ redisClient \in BOOLEAN
  /\ redisEntry \in IF redisClient THEN {JsNull, "", "1"} ELSE {JsNull}
  /\ redisFault \in IF redisClient THEN {"none", "error", "hang"} ELSE {"none"}
  /\ NoAuthCall
  /\ NoTraffic

\* the request logging middleware, then routing to /graphql
Arrive ==
  \E corr \in CorrelationHeaders, auth \in FwdAuthHeaders, fresh \in GeneratedIds :
    /\ inbound.pc = "new"
    /\ inbound' = [inbound EXCEPT !.pc = "context", !.corr = corr, !.auth = auth,
                                   !.correlationId = CorrelationOf(corr, fresh)]
    /\ requests' = requests + 1
    /\ UNCHANGED <<parseVars, serviceHealth, lastUpdate, errors, monitorVars, response,
                   proc, miniVars, settingsVars, redisVars, authVars, calls, arrivals>>

\* the context function: authenticateRequest runs to its first await or to its
\* end, and then the context object is built
ContextBegin ==
  \E fresh \in GeneratedIds :
    LET step == AuthenticateBegin(inbound.auth, redisClient) IN
    /\ inbound.pc = "context"
    /\ inbound' =
         CASE step.kind = "await" ->
                [inbound EXCEPT !.pc = "lookup", !.decoded = step.decoded]
           [] step.kind = "return" ->
                [inbound EXCEPT !.pc = "exec",
                   !.ctx = BuildContext(step.value, inbound.correlationId, fresh)]
           [] OTHER -> [inbound EXCEPT !.pc = "rejected"]
    /\ UNCHANGED <<parseVars, metricVars, monitorVars, response, proc, miniVars, settingsVars, redisVars, authVars, calls, arrivals>>

\* redisClient.get settles, authenticateRequest ends, the context object is built
ContextLookupSettles ==
  \E fresh \in GeneratedIds :
    LET step == AuthenticateAfterLookup(inbound.decoded, RedisReply(redisEntry, redisFault)) IN
    /\ inbound.pc = "lookup"
    /\ redisFault # "hang"
    /\ inbound' =
         IF step.kind = "return"
         THEN [inbound EXCEPT !.pc = "exec",
                 !.ctx = BuildContext(step.value, inbound.correlationId, fresh)]
         ELSE [inbound EXCEPT !.pc = "rejected"]
    /\ UNCHANGED <<parseVars, metricVars, monitorVars, response, proc, miniVars, settingsVars, redisVars, authVars, calls, arrivals>>

\* a call sent while the context function still awaits the revocation lookup
IssueCallBeforeContext ==
  \E fresh \in GeneratedIds :
    /\ inbound.pc \in {"lookup", "exec"}
    /\ Len(calls["request"]) < MaxCalls
    /\ calls' = [calls EXCEPT !["request"] =
         Append(@, [state |-> "inflight", headers |-> WillSendRequest(inbound.ctx, fresh)])]
    /\ UNCHANGED <<parseVars, metricVars, monitorVars, response, proc, miniVars, settingsVars, redisVars, authVars, inbound, arrivals>>

\* the query plan of the request sends a call to a subgraph
IssueCall ==
  \E fresh \in GeneratedIds :
    /\ inbound.pc = "exec"
    /\ Len(calls["request"]) < MaxCalls
    /\ calls' = [calls EXCEPT !["request"] =
         Append(@, [state |-> "inflight", headers |-> WillSendRequest(inbound.ctx, fresh)])]
    /\ UNCHANGED <<parseVars, metricVars, monitorVars, response, proc, miniVars, settingsVars, redisVars, authVars, inbound, arrivals>>

\* the gateway calls a subgraph on its own account, with an empty context
GatewayCall ==
  \E fresh \in GeneratedIds :
    /\ Len(calls["gateway"]) < MaxGatewayCalls
    /\ calls' = [calls EXCEPT !["gateway"] =
         Append(@, [state |-> "inflight", headers |-> WillSendRequest(EmptyMap, fresh)])]
    /\ UNCHANGED <<parseVars, metricVars, monitorVars, response, proc, miniVars, settingsVars, redisVars, authVars, inbound, arrivals>>

\* the fetch of the k-th call of owner o settles
CallSettles(o, k) ==
  \E outcome \in Responses \cup {NetworkError} :
    LET done == ProcessSettled(errors, outcome) IN
    /\ k \in 1..Len(calls[o])
    /\ calls[o][k].state = "inflight"
    /\ calls' = [calls EXCEPT ![o][k].state = done.state]
    /\ errors' = done.errors
    /\ UNCHANGED <<parseVars, serviceHealth, lastUpdate, requests, monitorVars, response,
                   proc, miniVars, settingsVars, redisVars, authVars, inbound, arrivals>>

\* the operation of the request ends: with errors, the plugin hook runs
Finish ==
  LET mine == calls["request"] IN
  /\ inbound.pc = "exec"
  /\ \A k \in 1..Len(mine) : mine[k].state # "inflight"
  /\ inbound' = [inbound EXCEPT !.pc = "done"]
  /\ errors' = IF \E k \in 1..Len(mine) : mine[k].state = "failed"
                THEN PluginDidEncounterErrors(errors) ELSE errors
  /\ UNCHANGED <<parseVars, serviceHealth, lastUpdate, requests, monitorVars, response,
                 proc, miniVars, settingsVars, redisVars, authVars, calls, arrivals>>

NextFwd ==
  \/ Arrive
  \/ ContextBegin
  \/ ContextLookupSettles
  \/ IssueCall
  \/ GatewayCall
  \/ \E o \in Owners : \E k \in 1..(MaxCalls + MaxGatewayCalls) : CallSettles(o, k)
  \/ Finish

SpecFwd == InitFwd /\ [][NextFwd]_vars

(***************************************************************************)
(* Specification SpecServe: the gateway serving /health, /ready, /metrics  *)
(* and a /graphql request while health checks of its service complete      *)
(***************************************************************************)
InitServe ==
  /\ servicesEnv = <<"A", "=", "http://a">>
  /\ parsePc = "parsed"
  /\ services = parseServiceList(servicesEnv)
  /\ InitMetrics
  /\ InitMonitor
  /\ NoMiniCall
  /\ NoSettings
  /\ proc = "running"
  /\ response = NoResponse
  /\ redisClient = TRUE
  /\ redisEntry = JsNull
  /\ redisFault = "none"
  /\ NoAuthCall
  /\ NoTraffic

\* a check that counts its failure in metrics.errors
CheckCompletesCountsError ==
  \E i \in 1..Len(services) : \E outcome \in Responses \cup {NetworkError, Aborted} :
    LET run == checkServiceHealth(serviceHealth, services[i], outcome) IN
    /\ serviceHealth' = run.health
    /\ errors' = IF run.returned THEN errors ELSE errors + 1
    /\ UNCHANGED <<parseVars, lastUpdate, requests, monitorVars, response,
                   proc, miniVars, settingsVars, redisVars, authVars, fwdVars>>

\* a checkServiceHealth call, started by the poll loop, runs to its end
CheckCompletes ==
  \E i \in 1..Len(services) : \E outcome \in Responses \cup {NetworkError, Aborted} :
    /\ serviceHealth' = checkServiceHealth(serviceHealth, services[i], outcome).health
    /\ UNCHANGED <<parseVars, lastUpdate, requests, errors, monitorVars, response,
                   proc, miniVars, settingsVars, redisVars, authVars, fwdVars>>

NextServe ==
  \/ CheckCompletes
  \/ GetHealth
  \/ GetReady
  \/ GetMetrics
  \/ Arrive
  \/ ContextBegin
  \/ ContextLookupSettles
  \/ IssueCall
  \/ \E k \in 1..MaxCalls : CallSettles("request", k)
  \/ Finish

SpecServe == InitServe /\ [][NextServe]_vars

(***************************************************************************)
(* Specification SpecProc: the life of the gateway process, from            *)
(* startServer to its exit                                                 *)
(***************************************************************************)
InitProc ==
  /\ servicesEnv = <<"A", "=", "http://a">>
  /\ parsePc = "parsed"
  /\ services = parseServiceList(servicesEnv)
  /\ InitMetrics
  /\ InitMonitor
  /\ NoMiniCall
  /\ NoSettings
  /\ proc = "starting"
  /\ response = NoResponse
  /\ NoRedis
  /\ NoAuthCall
  /\ NoTraffic

\* startServer: initializeRedis (createClient may throw before redisClient is
\* assigned; a failed connect is logged), then the Apollo server, the routes,
\* startHealthChecks and listen; anything thrown on the way is logged and the
\* process exits with code 1
StartServer ==
  \E created \in BOOLEAN, fault \in {"none", "error", "hang"}, entry \in {JsNull, "1"},
     started \in BOOLEAN :
    /\ proc = "starting"
    /\ redisClient' = created
    /\ redisFault' = IF created THEN fault ELSE "none"
    /\ redisEntry' = IF created THEN entry ELSE JsNull
    /\ healthStarted' = started
    /\ sinceRound' = 0
    /\ proc' = IF started THEN "running" ELSE "exit1"
    /\ UNCHANGED <<parseVars, metricVars, roundNo, checks, lastOutcome, writtenBy, lastCheck,
                   response, miniVars, settingsVars, authVars, fwdVars>>

\* the SIGTERM listener up to its first await: httpServer.close(...), server.stop()
Sigterm ==
  /\ proc = "running"
  /\ proc' = "stopping"
  /\ UNCHANGED <<parseVars, metricVars, monitorVars, response, miniVars, settingsVars,
                 redisVars, authVars, fwdVars>>

\* the rest of the SIGTERM listener: await redisClient.quit() when the client
\* was assigned, then process.exit(0). The listener is an async function with
\* no catch: a rejected quit is an unhandled rejection, which ends the process
\* with code 1; a quit that never settles leaves the process alive
ShutdownSettles ==
  /\ proc = "stopping"
  /\ redisClient => redisFault # "hang"
  /\ proc' = IF redisClient /\ redisFault = "error" THEN "exit1" ELSE "exit0"
  /\ UNCHANGED <<parseVars, metricVars, monitorVars, response, miniVars, settingsVars,
                 redisVars, authVars, fwdVars>>

\* the process is alive and serving
Serving == proc \in {"running", "stopping"}

NextProc ==
  \/ StartServer
  \/ Sigterm
  \/ ShutdownSettles
  \/ Serving /\ CheckCompletes
  \/ Serving /\ Arrive
  \/ Serving /\ ContextBegin
  \/ Serving /\ ContextLookupSettles
  \/ Serving /\ IssueCall
  \/ Serving /\ \E k \in 1..MaxCalls : CallSettles("request", k)
  \/ Serving /\ Finish

SpecProc == InitProc /\ [][NextProc]_vars

(***************************************************************************)
(* Specification SpecClose: a /graphql request whose client goes away      *)
(***************************************************************************)
\* the connection of the request closes before the answer is sent; no code
\* listens for it, so only the socket's state changes
ClientDisconnects ==
  /\ inbound.pc \in {"context", "lookup", "exec"}
  /\ ~inbound.closed
  /\ inbound' = [inbound EXCEPT !.closed = TRUE]
  /\ UNCHANGED <<parseVars, metricVars, monitorVars, response, proc, miniVars, settingsVars, redisVars, authVars,
                 calls, arrivals>>

NextClose ==
  \/ ClientDisconnects
  \/ Arrive
  \/ ContextBegin
  \/ ContextLookupSettles
  \/ IssueCall
  \/ \E k \in 1..MaxCalls : CallSettles("request", k)
  \/ Finish

SpecClose == InitFwd /\ [][NextClose]_vars

(***************************************************************************)
(* Specification SpecCorr: the request logging middleware tagging requests *)
(***************************************************************************)
InitCorr ==
  /\ servicesEnv = <<>>
  /\ parsePc = "parsed"
  /\ services = <<>>
  /\ InitMetrics
  /\ InitMonitor
  /\ NoMiniCall
  /\ NoSettings
  /\ proc = "running"
  /\ response = NoResponse
  /\ NoRedis
  /\ NoAuthCall
  /\ NoTraffic

\* req.correlationId = req.headers['x-correlation-id'] || generateCorrelationId();
\* metrics.requests++.  The clock does not run backwards between two requests.
Middleware ==
  \E corr \in CorrelationHeaders, now \in Millis, rnd \in RandomSuffixes :
    /\ Len(arrivals) < MaxArrivals
    /\ arrivals # <<>> => now >= arrivals[Len(arrivals)].now
    /\ arrivals' = Append(arrivals,
         [corr |-> corr, now |-> now,
          correlationId |-> CorrelationOf(corr, generateCorrelationId(now, rnd))])
    /\ requests' = requests + 1
    /\ UNCHANGED <<parseVars, serviceHealth, lastUpdate, errors, monitorVars, response,
                   proc, miniVars, settingsVars, redisVars, authVars, inbound, calls>>

NextCorr == Middleware

SpecCorr == InitCorr /\ [][NextCorr]_vars

(***************************************************************************)
(* Properties of authenticateRequest                                       *)
(***************************************************************************)
\* the header carries, after "Bearer ", a JWT signed with the shared secret by an
\* HMAC algorithm, and its exp has not passed
ValidBearer(h) ==
  /\ h.scheme = "Bearer "
  /\ h.token.jwt
  /\ h.token.alg \in {"HS256", "HS384", "HS512"}
  /\ h.token.sigOk
  /\ ~h.token.expired

\* the identity the claims of token t describe
ClaimedUser(t) ==
  [id |-> IF "sub" \in DOMAIN t.payload THEN t.payload.sub ELSE JsUndefined,
   email |-> t.payload.email,
   roles |-> IF "roles" \in DOMAIN t.payload THEN t.payload.roles ELSE <<>>]

\* C3: a call with a validly signed, unexpired Bearer token that the revocation
\* store does not hold returns isAuthenticated = true with user.id, user.email
\* and user.roles equal to the token's claims, roles being the empty list when
\* the token has no roles claim.
C3_ValidTokenAuthenticates ==
  (authPc = "done" /\ ValidBearer(authHeader) /\ redisEntry = JsNull) =>
    /\ authResult.isAuthenticated = TRUE
    /\ "user" \in DOMAIN authResult
    /\ authResult.user = ClaimedUser(authHeader.token)

\* C4: for a header that is absent, does not start with "Bearer ", or carries a
\* token that is no JWT, has a bad signature, is expired or is signed with an
\* algorithm outside the HMAC family, the call neither throws nor waits for the
\* store, and resolves to exactly {isAuthenticated: false}.
C4_InvalidHeaderIsAnonymous ==
  ~ValidBearer(authHeader) =>
    /\ authPc \in {"start", "done"}
    /\ redisGets = 0
    /\ authPc = "done" => authResult = [isAuthenticated |-> FALSE]

\* a completed call for an expired, well signed token with a store configured
C4_Witness ==
  /\ authPc = "done"
  /\ redisClient
  /\ authHeader.scheme = "Bearer "
  /\ authHeader.token.jwt /\ authHeader.token.sigOk /\ authHeader.token.expired
  /\ authResult = [isAuthenticated |-> FALSE]

\* C5: with a store configured that holds an entry for the presented token, a
\* call with a valid token returns {isAuthenticated: false}; the store is asked
\* only for a token that passed verification.
C5_RevokedTokenIsAnonymous ==
  /\ (authPc = "done" /\ redisClient /\ ValidBearer(authHeader) /\ redisEntry # JsNull)
       => authResult = [isAuthenticated |-> FALSE]
  /\ redisGets > 0 => ValidBearer(authHeader)

\* C16: with a store configured whose lookup raises an error, a call with a
\* valid token is authenticated with the token's claims, as if not revoked.
C16_StoreErrorFailsOpen ==
  (authPc = "done" /\ redisClient /\ redisFault = "error" /\ ValidBearer(authHeader)) =>
    /\ authResult.isAuthenticated
    /\ "user" \in DOMAIN authResult
    /\ authResult.user = ClaimedUser(authHeader.token)

\* C17: every call of authenticateRequest eventually completes, also when the
\* store never answers the lookup.
C17_AuthenticationCompletes == <>(authPc = "done")

\* the half of C31 that relates the two fields: a completed call is
\* authenticated exactly when its result has a user
C31_UserIffFlag ==
  authPc = "done" => (authResult.isAuthenticated <=> "user" \in DOMAIN authResult)

\* C31: the result of a completed call has isAuthenticated = true exactly when
\* it has a user, and the id of that user is a defined subject: a verified
\* token without a sub claim gives no authenticated result.
C31_AuthenticatedHasSubject ==
  authPc = "done" =>
    /\ authResult.isAuthenticated <=> "user" \in DOMAIN authResult
    /\ "user" \in DOMAIN authResult => authResult.user.id # JsUndefined

(***************************************************************************)
(* Properties of the request context and of the forwarding interceptor     *)
(***************************************************************************)
RequestCalls == {calls["request"][k] : k \in 1..Len(calls["request"])}

GatewayCalls == {calls["gateway"][k] : k \in 1..Len(calls["gateway"])}

\* C6: every downstream call carries x-correlation-id; a call of the inbound
\* request carries x-user-id and x-user-roles exactly when the request was
\* authenticated, and then they are the subject and the comma-joined roles of
\* its token; a call made with no authenticated request carries neither.
C6_IdentityHeadersIffAuthenticated ==
  /\ \A c \in RequestCalls \cup GatewayCalls : "x-correlation-id" \in DOMAIN c.headers
  /\ \A c \in RequestCalls :
       /\ "x-user-id" \in DOMAIN c.headers <=> inbound.ctx.isAuthenticated
       /\ "x-user-roles" \in DOMAIN c.headers <=> inbound.ctx.isAuthenticated
       /\ inbound.ctx.isAuthenticated =>
            /\ ValidBearer(inbound.auth)
            /\ c.headers["x-user-id"] = ClaimedUser(inbound.auth.token).id
            /\ c.headers["x-user-roles"] = JoinComma(ClaimedUser(inbound.auth.token).roles)
  /\ \A c \in GatewayCalls : DOMAIN c.headers = {"x-correlation-id"}

\* a call of an authenticated request and a call of the gateway itself
C6_Witness ==
  /\ \E c \in RequestCalls :
       /\ "x-user-id" \in DOMAIN c.headers
       /\ c.headers["x-user-id"] = "user123"
       /\ c.headers["x-user-roles"] = <<"user", ",", "admin">>
  /\ GatewayCalls # {}

\* C7: every downstream call of a request carries the correlation identifier
\* the request was given on arrival, which is the value of its own
\* x-correlation-id header when it supplied one (a non-empty value); hence all
\* calls of a request carry one identifier.
C7_CorrelationIdPropagated ==
  \A c \in RequestCalls :
    /\ c.headers["x-correlation-id"] = inbound.correlationId
    /\ (inbound.corr # Absent /\ inbound.corr # "")
         => c.headers["x-correlation-id"] = inbound.corr
    /\ \A d \in RequestCalls : d.headers["x-correlation-id"] = c.headers["x-correlation-id"]

\* two calls of a request that supplied x-correlation-id: test-123
C7_Witness ==
  /\ Len(calls["request"]) = 2
  /\ inbound.corr = "test-123"
  /\ \A c \in RequestCalls : c.headers["x-correlation-id"] = "test-123"

\* C14: a downstream call of a request exists only once authenticateRequest,
\* with its revocation lookup, has returned and its result is in the request
\* context; from the first call on the context no longer changes.
C14_AuthenticationBeforeCalls ==
  /\ [](calls["request"] # <<>> =>
          /\ inbound.pc \in {"exec", "done"}
          /\ inbound.ctx # NoCtx
          /\ "isAuthenticated" \in DOMAIN inbound.ctx
          /\ inbound.ctx.isAuthenticated \in BOOLEAN)
  /\ [][calls["request"] # <<>> => inbound'.ctx = inbound.ctx]_vars

\* a call of a request whose token was looked up in the revocation store
C14_Witness ==
  /\ redisClient
  /\ ValidBearer(inbound.auth)
  /\ inbound.pc = "exec"
  /\ inbound.ctx # NoCtx
  /\ calls["request"] # <<>>

\* C19: any two requests that supply no x-correlation-id header, also two
\* arriving within one millisecond, are assigned different identifiers.
C19_GeneratedIdsDiffer ==
  \A i, j \in 1..Len(arrivals) :
    (i # j /\ arrivals[i].corr = Absent /\ arrivals[j].corr = Absent)
      => arrivals[i].correlationId # arrivals[j].correlationId

\* C21: once the client of the request has disconnected, no downstream call
\* of the request runs to completion, and none is issued.
C21_DisconnectCancelsCalls ==
  [][inbound.closed =>
       /\ Len(calls'["request"]) = Len(calls["request"])
       /\ \A k \in 1..Len(calls["request"]) :
            calls["request"][k].state = "inflight"
              => calls'["request"][k].state \notin {"ok", "failed"}]_vars

\* number of downstream calls that failed
FailedCalls ==
  Cardinality({k \in 1..Len(calls["request"]) : calls["request"][k].state = "failed"})
    + Cardinality({k \in 1..Len(calls["gateway"]) : calls["gateway"][k].state = "failed"})

\* C8: each failed downstream call adds exactly one to metrics.errors, all hooks
\* counted, and a successful call adds nothing: when no operation is in
\* progress, metrics.errors is the number of failed calls.
C8_OneErrorPerFailedCall ==
  inbound.pc \in {"new", "done"} => errors = FailedCalls

\* increments of metrics.requests and of metrics.errors performed so far: one
\* by the middleware for the request, one by didEncounterError per failed
\* call, one by the plugin hook for an operation that ended with errors
RequestIncrements == IF inbound.pc = "new" THEN 0 ELSE 1

ErrorIncrements ==
  FailedCalls + (IF inbound.pc = "done" /\ \E c \in RequestCalls : c.state = "failed"
                 THEN 1 ELSE 0)

ChecksHealth ==
  \/ serviceHealth' # serviceHealth
  \/ lastUpdate' # lastUpdate
  \/ checks' # checks
  \/ roundNo' # roundNo
  \/ lastCheck' # lastCheck

\* C25: no step of the health-check path, whatever the outcome of the check,
\* changes metrics.requests or metrics.errors, also after a downstream call
\* has failed.
C25_ChecksLeaveCounters ==
  [][ChecksHealth => (requests' = requests /\ errors' = errors)]_vars

\* the service is recorded unhealthy and the counters hold what the request
\* and its failed downstream call added
C25_Witness ==
  /\ inbound.pc = "done"
  /\ Len(calls["request"]) = 1
  /\ calls["request"][1].state = "failed"
  /\ DOMAIN serviceHealth # {}
  /\ \A n \in DOMAIN serviceHealth : ~serviceHealth[n]
  /\ requests = 1
  /\ errors = ErrorIncrements

\* C26: once startup has succeeded, no failed health check, failed
\* authentication, failed downstream call or revocation-store error ends the
\* process: it exits with code 1 from a failed startup only, and with code 0
\* from the SIGTERM listener only
C26_ExitOnlyStartupOrSigterm ==
  [][proc' # proc =>
       \/ proc = "starting" /\ proc' \in {"running", "exit1"}
       \/ proc = "running" /\ proc' = "stopping"
       \/ proc = "stopping" /\ proc' = "exit0"]_vars

\* the failures of C26 other than a store error met by the SIGTERM listener:
\* no step of a health check or of a request changes the state of the process
C26_FailuresLeaveProcess ==
  [][(serviceHealth' # serviceHealth \/ inbound' # inbound \/ calls' # calls
        \/ errors' # errors)
       => proc' = proc]_vars

(***************************************************************************)
(* Properties of the health monitor and of the observability endpoints     *)
(***************************************************************************)
\* a check succeeded: its fetch was answered in time with a 2xx status
Succeeded(outcome) ==
  outcome.kind = "response" /\ outcome.status \in 200..299

\* UNKNOWN -> HEALTHY | UNHEALTHY, by the latest completed check of the name
StateOf(n) ==
  IF n \notin DOMAIN lastOutcome THEN "UNKNOWN"
  ELSE IF Succeeded(lastOutcome[n]) THEN "HEALTHY" ELSE "UNHEALTHY"

\* C1: the flag /health reports for a service (a registered name) is the outcome
\* of the latest completed check of that name; GET /health answers "healthy"/200
\* when the latest completed check of every service succeeded and
\* "degraded"/503 when the latest completed check of some service failed.
C1_HealthReportsLatestChecks ==
  LET answer == HealthHandler(serviceHealth, requests, errors) IN
  /\ \A n \in ServiceNames :
       /\ StateOf(n) = "UNKNOWN" <=> n \notin DOMAIN answer.services
       /\ StateOf(n) = "HEALTHY" => answer.services[n] = TRUE
       /\ StateOf(n) = "UNHEALTHY" => answer.services[n] = FALSE
  /\ (\A n \in ServiceNames : StateOf(n) = "HEALTHY")
       => answer.status = "healthy" /\ answer.code = 200
  /\ (\E n \in ServiceNames : StateOf(n) = "UNHEALTHY")
       => answer.status = "degraded" /\ answer.code = 503

\* a /health response "degraded" sent while one service is healthy and another
\* failed its latest check
C1_Witness ==
  /\ response.path = "/health"
  /\ response.code = 503
  /\ response.services = serviceHealth
  /\ \E n, m \in ServiceNames : StateOf(n) = "HEALTHY" /\ StateOf(m) = "UNHEALTHY"

\* C2 as stated: /ready answers 200 "ready" exactly when no service is registered
\* or every registered service is HEALTHY, and 503 "not ready" when some
\* registered service is UNHEALTHY or still UNKNOWN.
C2_Original ==
  LET answer == ReadyHandler(serviceHealth) IN
  /\ answer.code = 200
       <=> (Len(services) = 0 \/ \A n \in ServiceNames : StateOf(n) = "HEALTHY")
  /\ (\E n \in ServiceNames : StateOf(n) # "HEALTHY")
       => answer.code = 503 /\ answer.status = "not ready"

\* C2 amended: /ready answers 200 "ready" exactly when no registered service is
\* UNHEALTHY (each is HEALTHY or still UNKNOWN, which covers an empty
\* registry), and 503 "not ready" exactly when some registered service is
\* UNHEALTHY.
C2_ReadyIffNoneUnhealthy ==
  LET answer == ReadyHandler(serviceHealth) IN
  /\ answer.code = 200 <=> \A n \in ServiceNames : StateOf(n) # "UNHEALTHY"
  /\ answer.code = 200 => answer.status = "ready"
  /\ answer.code # 200 => answer.code = 503 /\ answer.status = "not ready"

\* a /ready response 200 sent while a registered service has never been polled
C2_Witness ==
  /\ response.path = "/ready"
  /\ response.code = 200
  /\ \E n \in ServiceNames : StateOf(n) = "UNKNOWN"

\* C15: as long as no health check has completed, GET /ready answers 200 with
\* status "ready" and GET /health answers 200 with status "healthy", whatever
\* services are configured.
C15_ReadyBeforeFirstCheck ==
  lastCheck = NoCheck =>
    /\ serviceHealth = EmptyMap
    /\ response.path = "/ready" => (response.code = 200 /\ response.status = "ready")
    /\ response.path = "/health" => (response.code = 200 /\ response.status = "healthy")

\* GET /health answered while the first poll round, of two services, is pending
C15_Witness ==
  /\ lastCheck = NoCheck
  /\ Len(services) = 2
  /\ Cardinality(checks) = 2
  /\ response.path = "/health"
  /\ response.code = 200

\* the last entry of the registry that carries the name n
LastEntryNamed(n) ==
  CHOOSE i \in 1..Len(services) :
    /\ services[i].name = n
    /\ \A j \in 1..Len(services) : services[j].name = n => j <= i

\* C18: the registry never holds two descriptors of one name, and the flag
\* recorded for a name is the outcome of the latest check of the last entry
\* that carries the name.
C18_OneDescriptorPerName ==
  /\ \A i, j \in 1..Len(services) : services[i].name = services[j].name => i = j
  /\ lastCheck.kind = "check" => lastCheck.svc = LastEntryNamed(lastCheck.name)

InFlight(cs) == {[svc |-> c.svc, round |-> c.round] : c \in cs}

\* C23: a poll round sends exactly one health request per registry entry, and
\* it starts only when the interval has passed; no other step sends one: a
\* check that has completed, whatever its outcome, is not sent again.
C23_OneRequestPerRound ==
  /\ [](Cardinality(InFlight(checks)) = Cardinality(checks))
  /\ [][ /\ roundNo' = roundNo =>
              /\ InFlight(checks') \subseteq InFlight(checks)
              /\ lastCheck' # lastCheck =>
                   [svc |-> lastCheck'.svc, round |-> lastCheck'.round] \notin InFlight(checks')
         /\ roundNo' # roundNo =>
              /\ roundNo' = roundNo + 1
              /\ sinceRound = IntervalTicks
              /\ checks' = checks \cup {[svc |-> i, round |-> roundNo', age |-> 0] :
                                          i \in 1..Len(services)} ]_vars

\* in the second round a check has failed and is not in flight again, while the
\* check of another entry of that round is still pending
C23_Witness ==
  /\ lastCheck.kind = "check"
  /\ ~lastCheck.returned
  /\ lastCheck.round = 2
  /\ \A c \in checks : c.svc # lastCheck.svc
  /\ \E c \in checks : c.round = 2

\* C24: the health map holds flags of registered names only, every flag is a
\* boolean, a name that has a flag keeps one, and a flag appears or changes
\* only in a step that completes a check of that name.
C24_HealthStateMachine ==
  /\ [](/\ DOMAIN serviceHealth \subseteq ServiceNames
        /\ \A n \in DOMAIN serviceHealth : serviceHealth[n] \in BOOLEAN)
  /\ [][ /\ DOMAIN serviceHealth \subseteq DOMAIN serviceHealth'
         /\ \A n \in DOMAIN serviceHealth' :
              (n \notin DOMAIN serviceHealth \/ serviceHealth'[n] # serviceHealth[n])
                => /\ lastCheck' # lastCheck
                   /\ lastCheck'.name = n
                   /\ lastCheck'.recorded = (IF serviceHealth'[n] THEN "true" ELSE "false") ]_vars

\* the second round has rewritten a flag while the registry has a healthy and
\* an unhealthy service
C24_Witness ==
  /\ lastCheck.kind = "check"
  /\ lastCheck.round = 2
  /\ DOMAIN serviceHealth = ServiceNames
  /\ \E n \in DOMAIN serviceHealth : serviceHealth[n]
  /\ \E n \in DOMAIN serviceHealth : ~serviceHealth[n]

\* C28: once startHealthChecks has run, every registered service eventually
\* has a flag in the health map; every poll round that starts completes, and
\* at the step that completes it every registered service has a flag written
\* by a check of that round.
C28_EveryServiceGetsChecked ==
  /\ healthStarted ~> (\A n \in ServiceNames : n \in DOMAIN serviceHealth)
  /\ \A r \in 1..MaxRounds : (roundNo = r) ~> (lastUpdate = r)
  /\ [][lastUpdate' # lastUpdate =>
         /\ lastUpdate' = roundNo'
         /\ \A n \in ServiceNames :
              /\ n \in DOMAIN serviceHealth'
              /\ n \in DOMAIN writtenBy'
              /\ writtenBy'[n] = lastUpdate']_vars

\* the second round has completed over a registry of two names, the flags of
\* both written by it
C28_Witness ==
  /\ lastUpdate = 2
  /\ Cardinality(ServiceNames) = 2
  /\ \A n \in ServiceNames : n \in DOMAIN writtenBy /\ writtenBy[n] = 2

\* every health map over the registered names
HealthMaps == UNION {[D -> BOOLEAN] : D \in SUBSET ServiceNames}

\* C29: for every content of the health map, the one held now included, GET
\* /health and GET /ready agree: /health answers 200 "healthy" exactly when
\* /ready answers 200 "ready", and 503 exactly when /ready answers 503.
C29_HealthAndReadyAgree ==
  \A m \in HealthMaps \cup {serviceHealth} :
    LET h == HealthHandler(m, requests, errors)
        r == ReadyHandler(m)
    IN /\ h.code \in {200, 503} /\ r.code \in {200, 503}
       /\ h.code = 200 <=> r.code = 200
       /\ h.code = 503 <=> r.code = 503
       /\ h.code = 200 <=> h.status = "healthy"
       /\ r.code = 200 <=> r.status = "ready"

\* GET /ready has answered 503 for the map held now, in which one service is
\* healthy and another is not
C29_Witness ==
  /\ response.path = "/ready"
  /\ response.code = 503
  /\ response.services = serviceHealth
  /\ HealthHandler(serviceHealth, requests, errors).code = 503
  /\ \E n \in DOMAIN serviceHealth : serviceHealth[n]
  /\ \E n \in DOMAIN serviceHealth : ~serviceHealth[n]

\* C30: the result of an older poll round never overwrites that of a newer
\* one. The checks in flight all belong to the latest round, at most one of
\* them for each entry of the registry; a round starts only when every check
\* of the round before has settled; and the round that wrote the flag of a
\* name last never decreases.
C30_RoundsNeverOverlap ==
  /\ [](\A c, d \in checks :
          /\ c.round = roundNo
          /\ c.svc = d.svc => c = d)
  /\ [][ /\ roundNo' # roundNo => checks = {}
         /\ \A n \in DOMAIN writtenBy :
              /\ n \in DOMAIN writtenBy'
              /\ writtenBy'[n] >= writtenBy[n] ]_vars

\* a check of the second round has overwritten the flag its service got in the
\* first round, while another service still holds its flag of the first round
\* and its check of the second round is in flight
C30_Witness ==
  /\ lastCheck.kind = "check"
  /\ lastCheck.round = 2
  /\ writtenBy[lastCheck.name] = 2
  /\ \E c \in checks :
       /\ c.round = 2
       /\ services[c.svc].name # lastCheck.name
       /\ services[c.svc].name \in DOMAIN writtenBy
       /\ writtenBy[services[c.svc].name] = 1

\* C32: metrics.lastUpdate is written once for each poll round, by the step
\* after which no check of that round is pending; every flag of the round is
\* written by then. Hence lastUpdate is never the round of a check still
\* pending, and no registered name has a flag older than lastUpdate.
C32_LastUpdateAfterFlags ==
  /\ [](/\ lastUpdate <= roundNo
        /\ \A c \in checks : c.round > lastUpdate
        /\ lastUpdate >= 1 =>
             \A n \in ServiceNames : n \in DOMAIN writtenBy /\ writtenBy[n] >= lastUpdate)
  /\ [][lastUpdate' # lastUpdate =>
         /\ lastUpdate' = lastUpdate + 1
         /\ lastUpdate' = roundNo'
         /\ checks' = {}
         /\ Len(services) > 0 => lastCheck' # lastCheck /\ lastCheck'.round = lastUpdate']_vars

\* between the two writes: a flag of the second round is in the map while
\* lastUpdate is still that of the first round and a check is pending
C32_Witness ==
  /\ lastUpdate = 1
  /\ \E n \in DOMAIN writtenBy : writtenBy[n] = 2
  /\ \E c \in checks : c.round = 2

\* C10: a completed checkServiceHealth call did not throw; on a 2xx answer it
\* returned true and recorded the service as healthy, on any other answer, a
\* network error or an abort it returned false and recorded it as unhealthy.
C10_CheckNeverThrows ==
  lastCheck.kind = "check" =>
    /\ ~lastCheck.threw
    /\ Succeeded(lastCheck.outcome)
         => lastCheck.returned = TRUE /\ lastCheck.recorded = "true"
    /\ ~Succeeded(lastCheck.outcome)
         => lastCheck.returned = FALSE /\ lastCheck.recorded = "false"

\* a check of the second poll round that ended in a network error
C10_Witness ==
  /\ lastCheck.kind = "check"
  /\ lastCheck.outcome = NetworkError
  /\ lastCheck.returned = FALSE
  /\ roundNo = 2

CanSettle(c) ==
  \/ ENABLED (~TimedOut(c) /\ Settle(c, NetworkError))
  \/ ENABLED (TimedOut(c) /\ Settle(c, Aborted))

\* the names whose flag a step writes or changes
Rewritten == {n \in DOMAIN serviceHealth' :
               n \notin DOMAIN serviceHealth \/ serviceHealth'[n] # serviceHealth[n]}

\* C12: the checks of a round are independent and none stops the poll loop.
\* Every pending check can be recorded at once whatever the other checks do,
\* and a due round can start whatever is pending; a step changes the flag of a
\* name only by completing one check of that name, leaving the other pending
\* checks pending; the interval timer, once armed, stays armed.
C12_ChecksAreIndependent ==
  /\ [](\A c \in checks : CanSettle(c))
  /\ []((healthStarted /\ sinceRound = IntervalTicks /\ roundNo < MaxRounds)
          => ENABLED PollRound)
  /\ [][ /\ \A n \in Rewritten :
              \E c \in checks : c \notin checks' /\ services[c.svc].name = n
         /\ (checks' \subseteq checks /\ checks' # checks)
              => Cardinality(checks \ checks') = 1
         /\ healthStarted => healthStarted' ]_vars

\* a check has just failed while a check of another service of the same round
\* is still pending, and that service keeps the healthy flag of the round before
C12_Witness ==
  /\ lastCheck.kind = "check"
  /\ ~lastCheck.returned
  /\ \E c \in checks :
       /\ c.round = lastCheck.round
       /\ services[c.svc].name # lastCheck.name
       /\ services[c.svc].name \in DOMAIN serviceHealth
       /\ serviceHealth[services[c.svc].name]

\* a step of request handling: the middleware, a route handler, the context
\* function, a downstream call or the end of the operation
HandlesRequest ==
  \/ requests' # requests
  \/ response' # response
  \/ errors' # errors
  \/ inbound' # inbound
  \/ calls' # calls

\* C13: no step of handling a request (GET /health, /ready, /metrics, /graphql
\* and its downstream calls) changes the health map; GET /health reports the
\* map as it stands, so two GET /health calls with no check writing the map
\* between them return the same services map.
C13_RequestsLeaveHealthMap ==
  [][ /\ HandlesRequest => serviceHealth' = serviceHealth
      /\ (requests' # requests /\ response' # response /\ response'.path = "/health")
           => /\ response'.services = serviceHealth
              /\ (response.path = "/health" /\ response.services = serviceHealth)
                   => response'.services = response.services ]_vars

\* a GET /health answered with a non-empty map after a /graphql request whose
\* downstream call failed
C13_Witness ==
  /\ response.path = "/health"
  /\ response.requests = 2
  /\ DOMAIN response.services # {}
  /\ response.services = serviceHealth
  /\ inbound.pc = "done"
  /\ \E c \in RequestCalls : c.state = "failed"

(***************************************************************************)
(* Specification SpecMini: one /graphql request of the minimal gateway     *)
(***************************************************************************)
InitMini ==
  /\ servicesEnv = <<>>
  /\ parsePc = "parsed"
  /\ services = <<>>
  /\ InitMetrics
  /\ InitMonitor
  /\ proc = "running"
  /\ response = NoResponse
  /\ NoRedis
  /\ NoAuthCall
  /\ NoTraffic
  /\ NoSettings
  /\ nodeEnv \in NodeEnvs
  /\ miniHeader \in MiniHeaders
  /\ miniPc = "start"
  /\ miniResult = NoResult

\* expressMiddleware calls the context function for the request
ContextCall ==
  /\ miniPc = "start"
  /\ miniPc' = "done"
  /\ miniResult' = GraphqlContext(miniHeader, nodeEnv)
  /\ UNCHANGED <<parseVars, metricVars, monitorVars, response, proc, nodeEnv, miniHeader,
                 settingsVars, redisVars, authVars, fwdVars>>

NextMini == ContextCall

SpecMini == InitMini /\ [][NextMini]_vars

\* the request carries no Bearer token: no header, another scheme, or nothing
\* after "Bearer "
NoBearerToken(h) == h.scheme # "Bearer " \/ h.token.empty

\* the token is a JWT signed with the secret by HS256, not expired, with the
\* expected issuer and audience
VerifiesHS256(t) ==
  /\ t.jwt /\ t.alg = "HS256" /\ t.sigOk /\ ~t.expired
  /\ t.iss = "plasma-engine-gateway" /\ t.aud = "plasma-engine"

\* C34: for a request without a Bearer token the context function fails with
\* "Authentication required" exactly when NODE_ENV is "production" and gives
\* {user: null} otherwise; for a request with a Bearer token it gives {user:
\* claims} when the token verifies as HS256 with the expected issuer and
\* audience and fails with "Authentication failed..." otherwise, whatever
\* NODE_ENV is.
C34_ContextByTokenAndEnv ==
  miniPc = "done" =>
    /\ NoBearerToken(miniHeader) =>
         /\ nodeEnv = "production"
              <=> miniResult = [kind |-> "throw", message |-> "Authentication required"]
         /\ nodeEnv # "production"
              <=> miniResult = [kind |-> "return", user |-> NullValue]
    /\ ~NoBearerToken(miniHeader) =>
         /\ VerifiesHS256(miniHeader.token)
              <=> /\ miniResult.kind = "return"
                  /\ ~miniResult.user.null
                  /\ miniResult.user.iss = miniHeader.token.iss
                  /\ miniResult.user.aud = miniHeader.token.aud
         /\ ~VerifiesHS256(miniHeader.token)
              <=> miniResult = [kind |-> "throw",
                                message |-> "Authentication failed: Invalid or expired token"]

\* in production, a request whose well signed HS256 token names another
\* audience has failed, and the failure is not the one of a missing token
C34_Witness ==
  /\ miniPc = "done"
  /\ nodeEnv = "production"
  /\ miniHeader.scheme = "Bearer "
  /\ miniHeader.token.jwt /\ miniHeader.token.alg = "HS256" /\ miniHeader.token.sigOk
  /\ ~miniHeader.token.expired
  /\ miniHeader.token.iss = "plasma-engine-gateway"
  /\ miniHeader.token.aud = "other"
  /\ miniResult.kind = "throw"
  /\ miniResult.message # "Authentication required"

(***************************************************************************)
(* Specification SpecSettings: loadConfig, then buildServiceList           *)
(***************************************************************************)
InitSettings ==
  /\ servicesEnv = <<>>
  /\ parsePc = "parsed"
  /\ services = <<>>
  /\ InitMetrics
  /\ InitMonitor
  /\ proc = "starting"
  /\ response = NoResponse
  /\ NoRedis
  /\ NoAuthCall
  /\ NoTraffic
  /\ NoMiniCall
  /\ settingsEnv \in SettingsEnvs
  /\ settingsPc = "env"
  /\ settingsConfig = NoConfig
  /\ settingsWarned = FALSE
  /\ serviceList = NoList

\* const config = loadConfig()
LoadSettings ==
  LET run == loadConfig(settingsEnv) IN
  /\ settingsPc = "env"
  /\ settingsPc' = IF run.threw THEN "threw" ELSE "loaded"
  /\ settingsConfig' = IF run.threw THEN settingsConfig ELSE run.config
  /\ settingsWarned' = run.warned
  /\ UNCHANGED <<parseVars, metricVars, monitorVars, response, proc, miniVars, settingsEnv,
                 serviceList, redisVars, authVars, fwdVars>>

\* buildServiceList(config)
BuildServiceList ==
  LET run == buildServiceList(settingsConfig) IN
  /\ settingsPc = "loaded"
  /\ settingsPc' = IF run.threw THEN "threw" ELSE "built"
  /\ serviceList' = run.list
  /\ UNCHANGED <<parseVars, metricVars, monitorVars, response, proc, miniVars, settingsEnv,
                 settingsConfig, settingsWarned, redisVars, authVars, fwdVars>>

NextSettings ==
  \/ LoadSettings
  \/ BuildServiceList

SpecSettings == InitSettings /\ [][NextSettings]_vars

\* SERVICE_LIST_JSON is set to a text that JSON.parse rejects
Unparsable(env) ==
  /\ env.SERVICE_LIST_JSON # JsUndefined
  /\ env.SERVICE_LIST_JSON # ""
  /\ ~JsonParse(env.SERVICE_LIST_JSON).ok

\* a list of {name, url} entries
IsServiceEntries(v) ==
  /\ v.type = "array"
  /\ \A i \in 1..Len(v.items) :
       /\ v.items[i].type = "object"
       /\ {"name", "url"} \subseteq DOMAIN v.items[i].props

\* the half of C35 about a text that is no JSON: loadConfig does not throw,
\* warns and returns the default list, which buildServiceList maps
C35_UnparsableFallsBack ==
  (settingsPc # "env" /\ Unparsable(settingsEnv)) =>
    /\ settingsPc # "threw"
    /\ settingsWarned
    /\ settingsConfig.downstreamServices = DefaultDownstream(settingsEnv)
    /\ Len(settingsConfig.downstreamServices.items) = 1
    /\ settingsConfig.downstreamServices.items[1].props.name = "research"

\* C35: loadConfig does not throw on a SERVICE_LIST_JSON that is no JSON, warns
\* and returns the default list of the single "research" service; and whatever
\* SERVICE_LIST_JSON is, downstreamServices is a list of {name, url} entries
\* and buildServiceList maps it without failing.
C35_DownstreamListIsMappable ==
  settingsPc # "env" =>
    /\ Unparsable(settingsEnv) =>
         /\ settingsWarned
         /\ settingsConfig.downstreamServices = DefaultDownstream(settingsEnv)
    /\ settingsPc # "threw"
    /\ IsServiceEntries(settingsConfig.downstreamServices)

(***************************************************************************)
(* Specification SpecParse: building config.services from SERVICES         *)
(***************************************************************************)
InitParse ==
  /\ servicesEnv \in Strings \cup SampleInputs
  /\ parsePc = "env"
  /\ services = <<>>
  /\ InitMetrics
  /\ InitMonitor
  /\ NoMiniCall
  /\ NoSettings
  /\ proc = "running"
  /\ response = NoResponse
  /\ NoRedis
  /\ NoAuthCall
  /\ NoTraffic

\* const config = { ..., services: parseServiceList(), ... }
LoadConfig ==
  /\ parsePc = "env"
  /\ parsePc' = "parsed"
  /\ services' = parseServiceList(servicesEnv)
  /\ UNCHANGED <<servicesEnv, metricVars, monitorVars, response, proc, miniVars, settingsVars, redisVars, authVars, fwdVars>>

NextParse == LoadConfig

SpecParse == InitParse /\ [][NextParse]_vars

(***************************************************************************)
(* Properties of parseServiceList                                          *)
(***************************************************************************)
\* NAME: the text of the entry before its first "="
EntryName(e) == SubSeq(e, 1, IndexOf(e, "=") - 1)

\* an entry NAME=URL with a non-empty NAME and a non-empty URL field after "="
WellFormed(e) ==
  LET i == IndexOf(e, "=") IN
  /\ i > 1
  /\ i < Len(e)
  /\ e[i + 1] # "="

\* the positions in the list of entries that hold a well-formed entry
WellFormedAt(es) == {i \in 1..Len(es) : WellFormed(es[i])}

AfterFirstEquals(e) == SubSeq(e, IndexOf(e, "=") + 1, Len(e))

\* C33: the url of the descriptor of a kept entry is the whole text of the
\* entry after its first "=", trimmed, further "=" characters included.
C33_UrlNotTruncated ==
  parsePc = "parsed" =>
    LET es == Entries(servicesEnv)
        at == WellFormedAt(es)
    IN \A i \in at :
         LET k == Cardinality({j \in at : j <= i}) IN
         k <= Len(services) => services[k].url = Trim(AfterFirstEquals(es[i]))

\* C27: every descriptor of config.services is named by the upper-cased NAME
\* of the entry it comes from, and its healthCheck is its url followed by
\* "/health": descriptors with the same url have the same healthCheck.
C27_NameAndHealthUrlDerived ==
  parsePc = "parsed" =>
    LET es == Entries(servicesEnv)
        at == WellFormedAt(es)
    IN /\ \A k \in 1..Len(services) :
            /\ \E i \in at : /\ Cardinality({j \in at : j <= i}) = k
                              /\ services[k].name = ToUpperCase(EntryName(es[i]))
            /\ \A j \in 1..Len(services[k].name) :
                 services[k].name[j] \notin {"a", "k", "v"}
            /\ services[k].healthCheck = services[k].url \o <<"/health">>
       /\ \A k, l \in 1..Len(services) :
            services[k].url = services[l].url
              => services[k].healthCheck = services[l].healthCheck

\* a parsed input with two descriptors of different urls, one of them from an
\* entry whose NAME has a lower-case letter
C27_Witness ==
  /\ parsePc = "parsed"
  /\ Len(services) = 2
  /\ services[1].url # services[2].url
  /\ services[1].healthCheck # services[2].healthCheck
  /\ \E i \in WellFormedAt(Entries(servicesEnv)) :
       EntryName(Entries(servicesEnv)[i]) # ToUpperCase(EntryName(Entries(servicesEnv)[i]))

====
